---- MODULE Spec2Model ----
(***************************************************************************)
(* Model of the ELK/ReactFlow decision-tree demo (the Flow component and   *)
(* the layout pipeline layoutWithElk with its corrective passes).          *)
(*                                                                         *)
(* Numbers.  Coordinates are JavaScript doubles in the source.  Every      *)
(* coordinate of the model is an integer, the only division is by two, and *)
(* the delegate's x coordinates are multiples of XStep (a multiple of 64), *)
(* so every halving the passes perform on graphs within the bounds is      *)
(* exact, as it is on doubles.  All nodes have width DEFAULT_NODE_WIDTH:   *)
(* the source sets no other width.                                         *)
(***************************************************************************)
EXTENDS Integers, Sequences, FiniteSets, TLC

VARIABLES nodes, edges, nodeCounter, pristine, inflight, call

vars == <<nodes, edges, nodeCounter, pristine, inflight, call>>

(***************************************************************************)
(* Program constants                                                       *)
(***************************************************************************)
END_NODE_ID == "end-node"
ROOT_ID == "root"
DEFAULT_NODE_WIDTH == 500
DEFAULT_NODE_HEIGHT == 300
VERTICAL_SPACING == 100
NODE_SPACING == 50
MIN_RANDOM_HEIGHT == 200
MAX_RANDOM_HEIGHT == 500
COLLAPSED_HEIGHT == 100

(***************************************************************************)
(* Bounds of the model                                                     *)
(***************************************************************************)
\* nodes of a corrective pass's input
PassMaxNodes == 3
\* grid points (0..PassGrid) a pass's input positions are drawn from
PassGrid == 2
\* grid points (0..ElkGrid) the delegate's response is drawn from
ElkGrid == 1
\* AddChild operations behind a graph handed to layoutWithElk
LayoutMaxAdds == 3
\* largest nodeCounter the Flow component reaches
MaxCounter == 3
\* layout calls in flight at once
MaxInflight == 2

MaxNodes == 5

FlowGrid == 0

ResizeAdds == 1
MutateAdds == 1
\* clicks, all in the main tree, behind a graph handed to layoutWithElk
MainTreeAdds == 4

\* the delegate's coordinates are drawn from the multiples of these steps
XStep == 64 * 25
YStep == DEFAULT_NODE_HEIGHT + NODE_SPACING

\* `node-${nodeCounter}`
NodeIdTable == <<"node-1", "node-2", "node-3", "node-4", "node-5", "node-6">>
NodeId(k) == NodeIdTable[k]

(***************************************************************************)
(* Helpers on sequences and sets                                           *)
(***************************************************************************)
Range(s) == {s[i] : i \in DOMAIN s}

SetMin(S) == CHOOSE m \in S : \A k \in S : m <= k

SetMax(S) == CHOOSE m \in S : \A k \in S : m >= k

\* x / 2 (exact on the values the model produces, see the header)
Half(n) == n \div 2

\* Array.prototype.findIndex(n => n.id === id), 1-based; 0 when absent
FindIndex(ns, id) ==
  IF \E i \in DOMAIN ns : ns[i].id = id
  THEN CHOOSE i \in DOMAIN ns : ns[i].id = id /\ \A j \in 1..(i - 1) : ns[j].id # id
  ELSE 0

Ids(ns) == {ns[i].id : i \in DOMAIN ns}

\* node.width || DEFAULT_NODE_WIDTH
WidthOf(n) == DEFAULT_NODE_WIDTH

\* node.height || DEFAULT_NODE_HEIGHT
HeightOf(n) == IF n.height = 0 THEN DEFAULT_NODE_HEIGHT ELSE n.height

RECURSIVE Dedup(_)
Dedup(s) ==
  IF s = <<>> THEN <<>>
  ELSE LET rest == Dedup(SelectSeq(Tail(s), LAMBDA v : v # Head(s)))
       IN <<Head(s)>> \o rest

\* keys of the parent -> children Map, in insertion order
MapKeys(es) == Dedup([i \in DOMAIN es |-> es[i].source])

\* childrenMap.get(p): the targets of p's edges, in edge order
ChildrenIds(es, p) ==
  LET own == SelectSeq(es, LAMBDA e : e.source = p)
  IN [i \in DOMAIN own |-> own[i].target]

\* ids reached from the ids in frontier by one or more edges of es
RECURSIVE Closure(_, _, _)
Closure(frontier, seen, es) ==
  LET next == {e.target : e \in {f \in Range(es) : f.source \in frontier}} \ seen
  IN IF next = {} THEN seen ELSE Closure(next, seen \cup next, es)

Descendants(id, es) == Closure({id}, {}, es)

\* a recursion over children started at id never returns: a cycle is reachable
Diverges(id, es) == \E v \in Descendants(id, es) \cup {id} : v \in Descendants(v, es)

(***************************************************************************)
(* alignSiblingsAtTop                                                      *)
(***************************************************************************)
\* variant of AlignGroup that aligns on the lowest sibling instead of the topmost
AlignGroupAtBottom(ns, childrenIds) ==
  IF Len(childrenIds) > 1
  THEN LET idx == {FindIndex(ns, childrenIds[i]) : i \in DOMAIN childrenIds} \ {0}
       IN IF Cardinality(idx) > 1
          THEN [i \in DOMAIN ns |->
                  IF i \in idx THEN [ns[i] EXCEPT !.y = SetMax({ns[j].y : j \in idx})]
                  ELSE ns[i]]
          ELSE ns
  ELSE ns

\* variant of AlignGroup that aligns the siblings' left edges as well
AlignGroupBothAxes(ns, childrenIds) ==
  IF Len(childrenIds) > 1
  THEN LET idx == {FindIndex(ns, childrenIds[i]) : i \in DOMAIN childrenIds} \ {0}
       IN IF Cardinality(idx) > 1
          THEN [i \in DOMAIN ns |->
                  IF i \in idx THEN [ns[i] EXCEPT !.y = SetMin({ns[j].y : j \in idx}),
                                                  !.x = SetMin({ns[j].x : j \in idx})]
                  ELSE ns[i]]
          ELSE ns
  ELSE ns

AlignGroup(ns, childrenIds) ==
  IF Len(childrenIds) > 1
  THEN LET found == SelectSeq(childrenIds, LAMBDA c : FindIndex(ns, c) # 0)
       IN IF Len(found) > 1
          THEN LET idx == {FindIndex(ns, found[i]) : i \in DOMAIN found}
                   topY == SetMin({ns[i].y : i \in idx})
               IN [i \in DOMAIN ns |->
                     IF i \in idx THEN [ns[i] EXCEPT !.y = topY] ELSE ns[i]]
          ELSE ns
  ELSE ns

RECURSIVE AlignFold(_, _, _)
AlignFold(ns, keys, es) ==
  IF keys = <<>> THEN ns
  ELSE AlignFold(AlignGroup(ns, ChildrenIds(es, Head(keys))), Tail(keys), es)

alignSiblingsAtTop(ns, es) ==
  IF Len(ns) = 0 THEN ns ELSE AlignFold(ns, MapKeys(es), es)

(***************************************************************************)
(* centerParentsOverChildren                                               *)
(***************************************************************************)
\* getTreeDepth; defined where the recursion returns (no cycle below id)
RECURSIVE getTreeDepth(_, _)
getTreeDepth(id, es) ==
  LET children == ChildrenIds(es, id)
  IN IF Len(children) = 0 THEN 0
     ELSE 1 + SetMax({getTreeDepth(children[i], es) : i \in DOMAIN children})

\* getTreeDepth overflows the stack for some parent of the map
DepthDiverges(es) == \E p \in Range(MapKeys(es)) : Diverges(p, es)

\* variant of InsertByDepth that orders the parents by descending depth
RECURSIVE InsertDeepestFirst(_, _, _)
InsertDeepestFirst(sorted, p, es) ==
  IF sorted = <<>> THEN <<p>>
  ELSE IF getTreeDepth(Head(sorted), es) >= getTreeDepth(p, es)
       THEN <<Head(sorted)>> \o InsertDeepestFirst(Tail(sorted), p, es)
       ELSE <<p>> \o sorted

\* Array.prototype.sort((a, b) => a.depth - b.depth): stable, ascending
RECURSIVE InsertByDepth(_, _, _)
InsertByDepth(sorted, p, es) ==
  IF sorted = <<>> THEN <<p>>
  ELSE IF getTreeDepth(Head(sorted), es) <= getTreeDepth(p, es)
       THEN <<Head(sorted)>> \o InsertByDepth(Tail(sorted), p, es)
       ELSE <<p>> \o sorted

RECURSIVE SortByDepth(_, _, _)
SortByDepth(sorted, keys, es) ==
  IF keys = <<>> THEN sorted
  ELSE SortByDepth(InsertByDepth(sorted, Head(keys), es), Tail(keys), es)

parentsWithChildren(es) == SortByDepth(<<>>, MapKeys(es), es)

\* variant of CenterParent that moves the children under the parent instead
CenterChildrenUnderParent(ns, parentId, es) ==
  LET children == ChildrenIds(es, parentId)
      idx == {FindIndex(ns, children[i]) : i \in DOMAIN children} \ {0}
      parentIndex == FindIndex(ns, parentId)
  IN IF idx = {} \/ parentIndex = 0 THEN ns
     ELSE LET childrenCenter == Half(SetMin({ns[i].x : i \in idx})
                                     + SetMax({ns[i].x + WidthOf(ns[i]) : i \in idx}))
              shift == ns[parentIndex].x + Half(WidthOf(ns[parentIndex])) - childrenCenter
          IN [i \in DOMAIN ns |->
                IF i \in idx THEN [ns[i] EXCEPT !.x = ns[i].x + shift] ELSE ns[i]]

CenterParent(ns, parentId, es) ==
  LET children == ChildrenIds(es, parentId)
      idx == {FindIndex(ns, children[i]) : i \in DOMAIN children} \ {0}
  IN IF idx = {} THEN ns
     ELSE LET childrenLeftmost == SetMin({ns[i].x : i \in idx})
              childrenRightmost == SetMax({ns[i].x + WidthOf(ns[i]) : i \in idx})
              childrenCenter == Half(childrenLeftmost + childrenRightmost)
              parentIndex == FindIndex(ns, parentId)
          IN IF parentIndex # 0
             THEN [ns EXCEPT ![parentIndex].x =
                                childrenCenter - Half(WidthOf(ns[parentIndex]))]
             ELSE ns

RECURSIVE CenterFold(_, _, _)
CenterFold(ns, parents, es) ==
  IF parents = <<>> THEN ns
  ELSE CenterFold(CenterParent(ns, Head(parents), es), Tail(parents), es)

centerParentsOverChildren(ns, es) == CenterFold(ns, parentsWithChildren(es), es)

(***************************************************************************)
(* centerInputNodeForSkewedGraph                                           *)
(***************************************************************************)
hasIncomingEdge(es) == {e.target : e \in Range(es)}

\* variant of rootNodes that does not exclude the sink
rootNodesWithSink(ns, es) ==
  SelectSeq(ns, LAMBDA n : n.id \notin hasIncomingEdge(es))

rootNodes(ns, es) ==
  SelectSeq(ns, LAMBDA n : n.id \notin hasIncomingEdge(es) /\ n.id # END_NODE_ID)

\* getDescendants: the traversal follows the children it finds in the node list
\* variant of getDescendants that stops at the direct children
getDirectChildren(ns, id, es) ==
  {e.target : e \in {f \in Range(es) : f.source = id /\ FindIndex(ns, f.target) # 0}}

getDescendants(ns, id, es) ==
  Descendants(id, SelectSeq(es, LAMBDA e : FindIndex(ns, e.target) # 0))

CenterRoot(ns, rootNode, es) ==
  LET rootIndex == FindIndex(ns, rootNode.id)
      idx == {FindIndex(ns, d) : d \in getDescendants(ns, rootNode.id, es)}
  IN IF rootIndex = 0 \/ idx = {} THEN ns
     ELSE LET leftmostX == SetMin({ns[i].x : i \in idx})
              rightmostX == SetMax({ns[i].x + WidthOf(ns[i]) : i \in idx})
              subtreeCenterX == Half(leftmostX + rightmostX)
          IN [ns EXCEPT ![rootIndex].x = subtreeCenterX - Half(WidthOf(rootNode))]

RECURSIVE SkewFold(_, _, _)
SkewFold(ns, roots, es) ==
  IF roots = <<>> THEN ns
  ELSE SkewFold(CenterRoot(ns, Head(roots), es), Tail(roots), es)

centerInputNodeForSkewedGraph(ns, es) == SkewFold(ns, rootNodes(ns, es), es)

(***************************************************************************)
(* constrainChildrenToParent                                               *)
(***************************************************************************)
\* variant of ConstrainEdge that also pulls a child down to the maximum gap
ConstrainEdgeBothWays(ns, edge) ==
  LET parentIndex == FindIndex(ns, edge.source)
      childIndex == FindIndex(ns, edge.target)
  IN IF parentIndex # 0 /\ childIndex # 0
     THEN [ns EXCEPT ![childIndex].y =
                        ns[parentIndex].y + HeightOf(ns[parentIndex]) + NODE_SPACING]
     ELSE ns

ConstrainEdge(ns, edge) ==
  LET parentIndex == FindIndex(ns, edge.source)
      childIndex == FindIndex(ns, edge.target)
  IN IF parentIndex # 0 /\ childIndex # 0
     THEN LET parentBottom == ns[parentIndex].y + HeightOf(ns[parentIndex])
              currentGap == ns[childIndex].y - parentBottom
          IN IF currentGap > NODE_SPACING
             THEN [ns EXCEPT ![childIndex].y = parentBottom + NODE_SPACING]
             ELSE ns
     ELSE ns

RECURSIVE ConstrainFold(_, _)
ConstrainFold(ns, es) ==
  IF es = <<>> THEN ns
  ELSE ConstrainFold(ConstrainEdge(ns, Head(es)), Tail(es))

constrainChildrenToParent(ns, es) == ConstrainFold(ns, es)

(***************************************************************************)
(* Forest decomposition and the recursions that can overflow the stack     *)
(***************************************************************************)
\* getOutputTreeDescendants (used only through includes): where it returns
getOutputTreeDescendants(es) == Descendants(END_NODE_ID, es)

outputTreeNodes(ns, es) ==
  SelectSeq(ns, LAMBDA n : n.id \in getOutputTreeDescendants(es))

mainTreeNodes(ns, es) ==
  SelectSeq(ns, LAMBDA n : n.id # END_NODE_ID /\ n.id \notin getOutputTreeDescendants(es))

\* variant of mainTreeEdges that keeps the edges into the sink
mainTreeEdgesWithSink(es) ==
  SelectSeq(es, LAMBDA e : /\ e.source \notin getOutputTreeDescendants(es)
                           /\ e.target \notin getOutputTreeDescendants(es))

mainTreeEdges(es) ==
  SelectSeq(es, LAMBDA e : /\ e.target # END_NODE_ID
                           /\ e.source \notin getOutputTreeDescendants(es)
                           /\ e.target \notin getOutputTreeDescendants(es))

outputTreeEdges(es) ==
  SelectSeq(es, LAMBDA e : /\ e.source \in getOutputTreeDescendants(es)
                           /\ e.target \in getOutputTreeDescendants(es))

\* [...edges.filter(edge => edge.source === END_NODE_ID), ...outputTreeEdges]
outputElkEdges(es) ==
  SelectSeq(es, LAMBDA e : e.source = END_NODE_ID) \o outputTreeEdges(es)

\* calculateNodeSubtreeWidth overflows the stack for some node of the list
WidthsDiverge(ns, es) == \E i \in DOMAIN ns : Diverges(ns[i].id, es)

(***************************************************************************)
(* calculateSubtreeWidths                                                  *)
(***************************************************************************)
RECURSIVE SumSeq(_)
SumSeq(ws) == IF ws = <<>> THEN 0 ELSE Head(ws) + SumSeq(Tail(ws))

\* variant of minSubtreeWidth without the spacing between siblings
minSubtreeWidthNoSpacing(childWidths) == SumSeq(childWidths)

\* totalChildWidth + spacingBetweenChildren
minSubtreeWidth(childWidths) ==
  SumSeq(childWidths) + (Len(childWidths) - 1) * VERTICAL_SPACING

\* calculateNodeSubtreeWidth; defined where the recursion returns
RECURSIVE calculateNodeSubtreeWidth(_, _)
calculateNodeSubtreeWidth(nodeId, es) ==
  LET children == ChildrenIds(es, nodeId)
  IN IF Len(children) = 0 THEN DEFAULT_NODE_WIDTH
     ELSE LET childWidths ==
                [i \in DOMAIN children |-> calculateNodeSubtreeWidth(children[i], es)]
          IN IF minSubtreeWidth(childWidths) > DEFAULT_NODE_WIDTH
             THEN minSubtreeWidth(childWidths) ELSE DEFAULT_NODE_WIDTH

\* the nodes with their elkWidth
calculateSubtreeWidths(ns, es) ==
  [i \in DOMAIN ns |->
     [id |-> ns[i].id, x |-> ns[i].x, y |-> ns[i].y, height |-> ns[i].height,
      originalHeight |-> ns[i].originalHeight,
      elkWidth |-> calculateNodeSubtreeWidth(ns[i].id, es)]]

\* the graph handed to elk.layout: children (id, width, height) and edges
ElkGraph(withWidths, es) ==
  [children |-> [i \in DOMAIN withWidths |->
                   [id |-> withWidths[i].id, width |-> withWidths[i].elkWidth,
                    height |-> HeightOf(withWidths[i])]],
   edges |-> es]

(***************************************************************************)
(* layoutWithElk, as the states of one asynchronous call.  A call is a     *)
(* record: its arguments (nodes, edges), the await it is suspended at      *)
(* (stage "main" or "output", or "done"), finalMainNodes and               *)
(* positionedEndNode (a list of zero or one node) once computed, the       *)
(* returned list (result) and whether the catch block produced it (threw). *)
(***************************************************************************)
ElkPositions == {[x |-> k * XStep, y |-> k * YStep] : k \in 0..ElkGrid}

\* the delegate's responses for a request with these node ids
ElkResponses(ids) == [ids -> ElkPositions]

\* the responses that may lack some of the request's children
ElkPartialResponses(ids) == UNION {ElkResponses(S) : S \in SUBSET ids}

\* children?.find(n => n.id === id), with layoutNode?.x || 0 and layoutNode?.y || 0
ElkAt(pos, id) == IF id \in DOMAIN pos THEN pos[id] ELSE [x |-> 0, y |-> 0]

CallAt(ns, es, stage, final, endList, result, threw) ==
  [nodes |-> ns, edges |-> es, stage |-> stage, finalMainNodes |-> final,
   positionedEndNode |-> endList, result |-> result, threw |-> threw]

\* variant of Caught that returns what the call had positioned when it failed
CaughtWithPartial(c) ==
  [c EXCEPT !.stage = "done", !.threw = TRUE,
            !.result = IF c.finalMainNodes = <<>> THEN c.nodes
                       ELSE c.finalMainNodes \o c.positionedEndNode
                              \o SelectSeq(c.nodes, LAMBDA n : n.id \in Descendants(END_NODE_ID, c.edges))]

\* the catch block: return nodes (the locals computed so far are dropped with
\* the frame; the record keeps them to tell where the call failed)
Caught(c) == [c EXCEPT !.stage = "done", !.threw = TRUE, !.result = c.nodes]

\* the call up to its first await
LayoutStart(ns, es) ==
  LET c == CallAt(ns, es, "main", <<>>, <<>>, <<>>, FALSE)
  IN IF Diverges(END_NODE_ID, es) THEN Caught(c)
     ELSE IF WidthsDiverge(mainTreeNodes(ns, es), mainTreeEdges(es)) THEN Caught(c)
     ELSE c

\* variant of Positioned that moves each node from where it was
PositionedFromInput(ns, pos, offsetX, offsetY) ==
  [i \in DOMAIN ns |->
     [ns[i] EXCEPT !.x = ns[i].x + ElkAt(pos, ns[i].id).x + offsetX,
                   !.y = ns[i].y + ElkAt(pos, ns[i].id).y + offsetY]]

\* node list with the delegate's positions (layoutNode?.x || 0) plus an offset
Positioned(ns, pos, offsetX, offsetY) ==
  [i \in DOMAIN ns |->
     [ns[i] EXCEPT !.x = ElkAt(pos, ns[i].id).x + offsetX,
                   !.y = ElkAt(pos, ns[i].id).y + offsetY]]

\* variant of PostProcess that leaves the siblings where the delegate put them
PostProcessWithoutAlign(ns, es) ==
  constrainChildrenToParent(
    centerInputNodeForSkewedGraph(centerParentsOverChildren(ns, es), es), es)

\* variant of PostProcess that corrects the skew before it centers the parents
PostProcessSkewFirst(ns, es) ==
  constrainChildrenToParent(
    centerParentsOverChildren(
      centerInputNodeForSkewedGraph(alignSiblingsAtTop(ns, es), es), es), es)

\* align, center, skew-correct, constrain: defined where getTreeDepth returns
PostProcess(ns, es) ==
  constrainChildrenToParent(
    centerInputNodeForSkewedGraph(
      centerParentsOverChildren(alignSiblingsAtTop(ns, es), es), es), es)

mainTreeBounds(final) ==
  IF Len(final) > 0
  THEN [minX |-> SetMin({final[i].x : i \in DOMAIN final}),
        maxX |-> SetMax({final[i].x + WidthOf(final[i]) : i \in DOMAIN final}),
        maxY |-> SetMax({final[i].y + HeightOf(final[i]) : i \in DOMAIN final})]
  ELSE [minX |-> 0, maxX |-> DEFAULT_NODE_WIDTH, maxY |-> 0]

\* variant of PositionEndNode that leaves no vertical spacing under the main tree
PositionEndNodeNoSpacing(ns, final) ==
  LET i == FindIndex(ns, END_NODE_ID)
      b == mainTreeBounds(final)
  IN IF i = 0 THEN <<>>
     ELSE <<[ns[i] EXCEPT !.x = Half(b.minX + b.maxX) - Half(DEFAULT_NODE_WIDTH),
                          !.y = b.maxY]>>

\* positionedEndNode, as a list of zero or one node
PositionEndNode(ns, final) ==
  LET i == FindIndex(ns, END_NODE_ID)
      b == mainTreeBounds(final)
      centerX == Half(b.minX + b.maxX) - Half(DEFAULT_NODE_WIDTH)
      endNodeY == b.maxY + VERTICAL_SPACING
  IN IF i = 0 THEN <<>> ELSE <<[ns[i] EXCEPT !.x = centerX, !.y = endNodeY]>>

\* from the main tree's response to the next await or the return
AfterMain(c, pos) ==
  IF DepthDiverges(mainTreeEdges(c.edges)) THEN Caught(c)
  ELSE
    LET laidOut == Positioned(mainTreeNodes(c.nodes, c.edges), pos, 0, 0)
        final == PostProcess(laidOut, mainTreeEdges(c.edges))
        endList == PositionEndNode(c.nodes, final)
        outNodes == outputTreeNodes(c.nodes, c.edges)
    IN IF Len(outNodes) > 0 /\ endList # <<>>
       THEN IF WidthsDiverge(endList \o outNodes, outputElkEdges(c.edges))
            THEN Caught(c)
            ELSE CallAt(c.nodes, c.edges, "output", final, endList, <<>>, FALSE)
       ELSE CallAt(c.nodes, c.edges, "done", final, endList, final \o endList, FALSE)

\* variant of outputLaidOutNodes that leaves the delegate's coordinates as they are
outputLaidOutNodesUntranslated(c, pos) ==
  Positioned(c.positionedEndNode \o outputTreeNodes(c.nodes, c.edges), pos, 0, 0)

\* the output tree with the end node, moved to where the end node is wanted
outputLaidOutNodes(c, pos) ==
  LET outputTreeWithEnd == c.positionedEndNode \o outputTreeNodes(c.nodes, c.edges)
      offsetX == c.positionedEndNode[1].x - ElkAt(pos, END_NODE_ID).x
      offsetY == c.positionedEndNode[1].y - ElkAt(pos, END_NODE_ID).y
  IN Positioned(outputTreeWithEnd, pos, offsetX, offsetY)

\* variant of AfterOutput that returns the end node with the main tree as well
AfterOutputWithSinkTwice(c, pos) ==
  IF DepthDiverges(outputElkEdges(c.edges)) THEN Caught(c)
  ELSE CallAt(c.nodes, c.edges, "done", c.finalMainNodes, c.positionedEndNode,
              c.finalMainNodes \o c.positionedEndNode
                \o PostProcess(outputLaidOutNodes(c, pos), outputElkEdges(c.edges)),
              FALSE)

\* from the output tree's response to the return
AfterOutput(c, pos) ==
  IF DepthDiverges(outputElkEdges(c.edges)) THEN Caught(c)
  ELSE
    LET finalOutputNodes ==
          PostProcess(outputLaidOutNodes(c, pos), outputElkEdges(c.edges))
    IN CallAt(c.nodes, c.edges, "done", c.finalMainNodes, c.positionedEndNode,
              c.finalMainNodes \o finalOutputNodes, FALSE)

\* the two graphs a call on (ns, es) hands to elk.layout; defined where
\* calculateNodeSubtreeWidth returns
mainElkGraph(ns, es) ==
  ElkGraph(calculateSubtreeWidths(mainTreeNodes(ns, es), mainTreeEdges(es)),
           mainTreeEdges(es))

outputElkGraph(ns, es) ==
  ElkGraph(calculateSubtreeWidths(
             SelectSeq(ns, LAMBDA n : n.id = END_NODE_ID) \o outputTreeNodes(ns, es),
             outputElkEdges(es)),
           outputElkEdges(es))

\* ids of the children of the main tree's request, and of the output tree's
mainRequestIds(c) == Ids(mainTreeNodes(c.nodes, c.edges))

outputRequestIds(c) == {END_NODE_ID} \cup Ids(outputTreeNodes(c.nodes, c.edges))

(***************************************************************************)
(* The graph and its mutations                                             *)
(***************************************************************************)
NewNode(id, h) == [id |-> id, x |-> 0, y |-> 0, height |-> h, originalHeight |-> h]

initialNodes == <<NewNode(ROOT_ID, DEFAULT_NODE_HEIGHT), NewNode(END_NODE_ID, DEFAULT_NODE_HEIGHT)>>

Edge(s, t) == [source |-> s, target |-> t]

initialEdges == <<Edge(ROOT_ID, END_NODE_ID)>>

\* Math.floor(Math.random() * (MAX - MIN + 1)) + MIN, at Math.random() = 0
RandomHeights == {MIN_RANDOM_HEIGHT}

\* getAncestors, cut after fuel parents
RECURSIVE getAncestorsUpTo(_, _, _)
getAncestorsUpTo(id, es, fuel) ==
  IF fuel = 0 \/ ~\E i \in DOMAIN es : es[i].target = id THEN <<>>
  ELSE LET first == CHOOSE i \in DOMAIN es :
                      es[i].target = id /\ \A j \in 1..(i - 1) : es[j].target # id
       IN <<es[first].source>> \o getAncestorsUpTo(es[first].source, es, fuel - 1)

\* the chain of parents repeats an id: getAncestors overflows the stack
AncestorsDiverge(id, es) == Len(getAncestorsUpTo(id, es, Len(es) + 1)) > Len(es)

isDescendantOfOutput(id, es) ==
  END_NODE_ID \in Range(getAncestorsUpTo(id, es, Len(es) + 1))

\* variant of ClickEdges that keeps the clicked node's edge to the sink
ClickEdgesKeepingSinkEdge(es, clicked, newNodeId) ==
  IF clicked = END_NODE_ID \/ isDescendantOfOutput(clicked, es)
  THEN Append(es, Edge(clicked, newNodeId))
  ELSE es \o <<Edge(clicked, newNodeId), Edge(newNodeId, END_NODE_ID)>>

\* the edge list onNodeClick sets for a click on the node with this id
ClickEdges(es, clicked, newNodeId) ==
  IF clicked = END_NODE_ID \/ isDescendantOfOutput(clicked, es)
  THEN Append(es, Edge(clicked, newNodeId))
  ELSE SelectSeq(es, LAMBDA e : ~(e.source = clicked /\ e.target = END_NODE_ID))
         \o <<Edge(clicked, newNodeId), Edge(newNodeId, END_NODE_ID)>>

\* variant of updateNodeHeight that remembers the height it replaces
updateNodeHeightForgetting(ns, nodeId, newHeight) ==
  [i \in DOMAIN ns |->
     IF ns[i].id = nodeId
     THEN [ns[i] EXCEPT !.height = newHeight, !.originalHeight = HeightOf(ns[i])]
     ELSE ns[i]]

\* updateNodeHeight's map over the node list
updateNodeHeight(ns, nodeId, newHeight) ==
  [i \in DOMAIN ns |->
     IF ns[i].id = nodeId
     THEN [ns[i] EXCEPT !.height = newHeight,
                        !.originalHeight =
                           IF ns[i].originalHeight # 0 THEN ns[i].originalHeight
                           ELSE HeightOf(ns[i])]
     ELSE ns[i]]

(***************************************************************************)
(* The Flow component.  nodes, edges and nodeCounter are its React state;  *)
(* pristine says that the nodes state is the initialNodes array itself     *)
(* (React compares states by identity); inflight lists the layoutWithElk   *)
(* calls whose promise has not settled, oldest first.  A request records   *)
(* its call, whether its nodes argument is the initialNodes array          *)
(* (argPristine), whether the nodes state has not been replaced since it   *)
(* was issued (fresh), and whether no later applyLayout call was made      *)
(* (latest).                                                               *)
(***************************************************************************)
Request(c, isInitial) ==
  [call |-> c, argPristine |-> isInitial, fresh |-> TRUE, latest |-> TRUE]

Superseded(reqs) == [i \in DOMAIN reqs |-> [reqs[i] EXCEPT !.latest = FALSE]]

NodesReplaced(reqs) == [i \in DOMAIN reqs |-> [reqs[i] EXCEPT !.fresh = FALSE]]

Without(reqs, i) == SubSeq(reqs, 1, i - 1) \o SubSeq(reqs, i + 1, Len(reqs))

\* applyLayout(): a call that throws before its first await resolves to its own
\* nodes argument, the current state, and the setNodes that follows changes nothing
applyLayout(ns, es, isInitial, reqs) ==
  LET c == LayoutStart(ns, es)
  IN IF c.stage = "done" THEN Superseded(reqs)
     ELSE Append(Superseded(reqs), Request(c, isInitial))

\* the effect: its dependencies (nodeHeights, applyLayout) change with every new
\* nodes or edges array
LayoutEffect(ns, es, isInitial, reqs) ==
  IF Len(ns) > 0 THEN applyLayout(ns, es, isInitial, reqs) ELSE reqs

Init ==
  /\ nodes = initialNodes
  /\ edges = initialEdges
  /\ nodeCounter = 1
  /\ pristine = TRUE
  /\ inflight = LayoutEffect(initialNodes, initialEdges, TRUE, <<>>)
  /\ call = CallAt(<<>>, <<>>, "idle", <<>>, <<>>, <<>>, FALSE)

\* onNodeClick on the i-th rendered node, Math.random() giving height h
AddChild(i, h) ==
  /\ nodeCounter < MaxCounter
  /\ Len(nodes) < MaxNodes
  /\ Len(inflight) < MaxInflight
  /\ IF nodes[i].id # END_NODE_ID /\ AncestorsDiverge(nodes[i].id, edges)
     THEN UNCHANGED vars
     ELSE /\ nodes' = Append(nodes, NewNode(NodeId(nodeCounter), h))
          /\ edges' = ClickEdges(edges, nodes[i].id, NodeId(nodeCounter))
          /\ nodeCounter' = nodeCounter + 1
          /\ pristine' = FALSE
          /\ inflight' = LayoutEffect(nodes', edges', FALSE, NodesReplaced(inflight))
          /\ UNCHANGED call

\* handleCollapse of the i-th rendered node
Collapse(i) ==
  /\ Len(inflight) < MaxInflight
  /\ nodes' = updateNodeHeight(nodes, nodes[i].id, COLLAPSED_HEIGHT)
  /\ pristine' = FALSE
  /\ inflight' = LayoutEffect(nodes', edges, FALSE, NodesReplaced(inflight))
  /\ UNCHANGED <<edges, nodeCounter, call>>

\* handleExpand of the i-th rendered node
Expand(i) ==
  /\ Len(inflight) < MaxInflight
  /\ nodes' = updateNodeHeight(nodes, nodes[i].id,
                 IF nodes[i].originalHeight # 0 THEN nodes[i].originalHeight
                 ELSE DEFAULT_NODE_HEIGHT)
  /\ pristine' = FALSE
  /\ inflight' = LayoutEffect(nodes', edges, FALSE, NodesReplaced(inflight))
  /\ UNCHANGED <<edges, nodeCounter, call>>

resetGraph ==
  /\ Len(inflight) < MaxInflight
  /\ nodes' = initialNodes
  /\ edges' = initialEdges
  /\ nodeCounter' = 1
  /\ pristine' = TRUE
  /\ inflight' = IF pristine /\ edges = initialEdges THEN inflight
                 ELSE LayoutEffect(initialNodes, initialEdges, TRUE,
                                   IF pristine THEN inflight ELSE NodesReplaced(inflight))
  /\ UNCHANGED call

\* the Re-layout button
Relayout ==
  /\ Len(inflight) < MaxInflight
  /\ inflight' = applyLayout(nodes, edges, pristine, inflight)
  /\ UNCHANGED <<nodes, edges, nodeCounter, pristine, call>>

\* a component that kept a sequence number per request would drop the outcome
\* of every request but the latest
SettleLatestOnly(i, c) ==
  LET r == inflight[i]
      rest == Without(inflight, i)
  IN IF ~r.latest \/ (c.threw /\ (IF r.argPristine THEN pristine ELSE r.fresh))
     THEN /\ inflight' = rest
          /\ UNCHANGED <<nodes, edges, nodeCounter, pristine, call>>
     ELSE /\ nodes' = c.result
          /\ pristine' = (c.threw /\ r.argPristine)
          /\ inflight' = LayoutEffect(c.result, edges, pristine', NodesReplaced(rest))
          /\ UNCHANGED <<edges, nodeCounter, call>>

\* request i's call settles with outcome c, and then
\* .then(laidOutNodes => setNodes(laidOutNodes)) runs, followed by the effect
Settle(i, c) ==
  LET r == inflight[i]
      rest == Without(inflight, i)
      sameArray == c.threw /\ (IF r.argPristine THEN pristine ELSE r.fresh)
  IN IF sameArray
     THEN /\ inflight' = rest
          /\ UNCHANGED <<nodes, edges, nodeCounter, pristine, call>>
     ELSE /\ nodes' = c.result
          /\ pristine' = (c.threw /\ r.argPristine)
          /\ inflight' = LayoutEffect(c.result, edges, pristine', NodesReplaced(rest))
          /\ UNCHANGED <<edges, nodeCounter, call>>

\* the outcome of a call whose awaits resolve.  Between its awaits a call
\* touches only its own locals, so the component sees it settle in one step.
Returned(c, mainPos, outPos) ==
  LET afterMain == AfterMain(c, mainPos)
  IN IF afterMain.stage = "done" THEN afterMain ELSE AfterOutput(afterMain, outPos)

\* the delegate's responses to the component's requests
FlowResponses(ids) == [ids -> {[x |-> k * XStep, y |-> k * YStep] : k \in 0..FlowGrid}]

\* both of request i's delegate calls resolve
ElkResolve(i, mainPos, outPos) == Settle(i, Returned(inflight[i].call, mainPos, outPos))

\* one of request i's delegate calls rejects: the catch block returns nodes
ElkReject(i) == Settle(i, Caught(inflight[i].call))

Resolves(i) ==
  \E mainPos \in FlowResponses(mainRequestIds(inflight[i].call)) :
    \E outPos \in FlowResponses(outputRequestIds(inflight[i].call)) :
      ElkResolve(i, mainPos, outPos)

Next ==
  \/ \E i \in DOMAIN nodes, h \in RandomHeights : AddChild(i, h)
  \/ \E i \in DOMAIN nodes : Collapse(i)
  \/ \E i \in DOMAIN nodes : Expand(i)
  \/ resetGraph
  \/ Relayout
  \/ \E i \in DOMAIN inflight : Resolves(i)
  \/ \E i \in DOMAIN inflight : ElkReject(i)

Spec == Init /\ [][Next]_vars

\* the structural operations alone: clicks and resets, with their layouts
NextClick ==
  \/ \E i \in DOMAIN nodes, h \in RandomHeights : AddChild(i, h)
  \/ resetGraph
  \/ \E i \in DOMAIN inflight : Resolves(i)
  \/ \E i \in DOMAIN inflight : ElkReject(i)

SpecClick == Init /\ [][NextClick]_vars

\* clicks alone, with their layouts
NextAdd ==
  \/ \E i \in DOMAIN nodes, h \in RandomHeights : AddChild(i, h)
  \/ \E i \in DOMAIN inflight : Resolves(i)
  \/ \E i \in DOMAIN inflight : ElkReject(i)

SpecAdd == Init /\ [][NextAdd]_vars

(***************************************************************************)
(* The corrective passes as pure functions: the arguments (nodes, edges)   *)
(* are drawn by the initial condition, and call records the pass applied   *)
(* (stage), the list it returned (result) and whether it threw.            *)
(***************************************************************************)
Idle == CallAt(<<>>, <<>>, "idle", <<>>, <<>>, <<>>, FALSE)

\* the ids of a pass's input: the root, the sink and clicked nodes
PassIdSeq == <<ROOT_ID, END_NODE_ID>> \o SubSeq(NodeIdTable, 1, PassMaxNodes - 2)

PassIds == Range(PassIdSeq)

\* a node is at its original height or collapsed
PassHeights == {DEFAULT_NODE_HEIGHT, COLLAPSED_HEIGHT}

PassNodeLists ==
  {[i \in 1..PassMaxNodes |->
      [id |-> PassIdSeq[i], x |-> g[i] * XStep, y |-> g[i] * YStep,
       height |-> h[i], originalHeight |-> DEFAULT_NODE_HEIGHT]] :
     g \in [1..PassMaxNodes -> 0..PassGrid], h \in [1..PassMaxNodes -> PassHeights]}

NoParent == "none"

\* the edge sets in which every node has at most one incoming edge
PassEdgeSets ==
  {{Edge(par[v], v) : v \in {w \in PassIds : par[w] # NoParent}} :
     par \in {q \in [PassIds -> PassIds \cup {NoParent}] : \A v \in PassIds : q[v] # v}}

\* an edge set in every order
Orderings(E) ==
  {s \in [1..Cardinality(E) -> E] : \A i, j \in 1..Cardinality(E) : s[i] = s[j] => i = j}

PassEdgeLists == UNION {Orderings(E) : E \in PassEdgeSets}

PassReturned(name, out) == CallAt(nodes, edges, name, <<>>, <<>>, out, FALSE)

PassThrew(name) == CallAt(nodes, edges, name, <<>>, <<>>, <<>>, TRUE)

FlowIdle ==
  /\ nodeCounter = 1
  /\ pristine = FALSE
  /\ inflight = <<>>

InitPass ==
  /\ nodes \in PassNodeLists
  /\ edges \in PassEdgeLists
  /\ FlowIdle
  /\ call = Idle

PassAlign ==
  /\ call.stage = "idle"
  /\ call' = PassReturned("alignSiblingsAtTop", alignSiblingsAtTop(nodes, edges))
  /\ UNCHANGED <<nodes, edges, nodeCounter, pristine, inflight>>

PassCenter ==
  /\ call.stage = "idle"
  /\ call' = IF DepthDiverges(edges) THEN PassThrew("centerParentsOverChildren")
             ELSE PassReturned("centerParentsOverChildren",
                               centerParentsOverChildren(nodes, edges))
  /\ UNCHANGED <<nodes, edges, nodeCounter, pristine, inflight>>

PassSkew ==
  /\ call.stage = "idle"
  /\ call' = PassReturned("centerInputNodeForSkewedGraph",
                          centerInputNodeForSkewedGraph(nodes, edges))
  /\ UNCHANGED <<nodes, edges, nodeCounter, pristine, inflight>>

PassConstrain ==
  /\ call.stage = "idle"
  /\ call' = PassReturned("constrainChildrenToParent",
                          constrainChildrenToParent(nodes, edges))
  /\ UNCHANGED <<nodes, edges, nodeCounter, pristine, inflight>>

PassWidths ==
  /\ call.stage = "idle"
  /\ call' = IF WidthsDiverge(nodes, edges) THEN PassThrew("calculateSubtreeWidths")
             ELSE PassReturned("calculateSubtreeWidths",
                               calculateSubtreeWidths(nodes, edges))
  /\ UNCHANGED <<nodes, edges, nodeCounter, pristine, inflight>>

NextPass == PassAlign \/ PassCenter \/ PassSkew \/ PassConstrain \/ PassWidths

SpecPass == InitPass /\ [][NextPass]_vars

(***************************************************************************)
(* layoutWithElk as one call: the arguments are a graph built by AddChild  *)
(* operations from the initial graph, the delegate answers or rejects.     *)
(***************************************************************************)
Graph(ns, es, counter) == [nodes |-> ns, edges |-> es, nodeCounter |-> counter]

\* onNodeClick's state updates for a click on the i-th node of g
Clicked(g, i, h) ==
  Graph(Append(g.nodes, NewNode(NodeId(g.nodeCounter), h)),
        ClickEdges(g.edges, g.nodes[i].id, NodeId(g.nodeCounter)),
        g.nodeCounter + 1)

RECURSIVE GraphsAfter(_)
GraphsAfter(k) ==
  IF k = 0 THEN {Graph(initialNodes, initialEdges, 1)}
  ELSE LET prev == GraphsAfter(k - 1)
       IN prev \cup UNION {{Clicked(g, i, h) : i \in DOMAIN g.nodes, h \in RandomHeights} :
                             g \in prev}

InitLayout ==
  /\ \E g \in GraphsAfter(LayoutMaxAdds) :
       /\ nodes = g.nodes
       /\ edges = g.edges
       /\ nodeCounter = g.nodeCounter
  /\ pristine = FALSE
  /\ inflight = <<>>
  /\ call = LayoutStart(nodes, edges)

LayoutMainResolve(pos) ==
  /\ call.stage = "main"
  /\ call' = AfterMain(call, pos)
  /\ UNCHANGED <<nodes, edges, nodeCounter, pristine, inflight>>

LayoutMainReject ==
  /\ call.stage = "main"
  /\ call' = Caught(call)
  /\ UNCHANGED <<nodes, edges, nodeCounter, pristine, inflight>>

LayoutOutputResolve(pos) ==
  /\ call.stage = "output"
  /\ call' = AfterOutput(call, pos)
  /\ UNCHANGED <<nodes, edges, nodeCounter, pristine, inflight>>

LayoutOutputReject ==
  /\ call.stage = "output"
  /\ call' = Caught(call)
  /\ UNCHANGED <<nodes, edges, nodeCounter, pristine, inflight>>

NextLayout ==
  \/ \E pos \in ElkPartialResponses(mainRequestIds(call)) : LayoutMainResolve(pos)
  \/ LayoutMainReject
  \/ \E pos \in ElkPartialResponses(outputRequestIds(call)) : LayoutOutputResolve(pos)
  \/ LayoutOutputReject

SpecLayout == InitLayout /\ [][NextLayout]_vars

(***************************************************************************)
(* layoutWithElk on a graph built by clicks on main-tree nodes alone: the  *)
(* sink subtree is empty and the call makes one delegate call.             *)
(***************************************************************************)
InitMainTree ==
  /\ \E g \in GraphsAfter(MainTreeAdds) :
       /\ getOutputTreeDescendants(g.edges) = {}
       /\ nodes = g.nodes
       /\ edges = g.edges
       /\ nodeCounter = g.nodeCounter
  /\ pristine = FALSE
  /\ inflight = <<>>
  /\ call = LayoutStart(nodes, edges)

NextMainTree ==
  \/ \E pos \in ElkResponses(mainRequestIds(call)) : LayoutMainResolve(pos)
  \/ LayoutMainReject

SpecMainTree == InitMainTree /\ [][NextMainTree]_vars

(***************************************************************************)
(* Collapse and Expand on a graph built by AddChild operations, with the   *)
(* layout of the last of them in flight.                                   *)
(***************************************************************************)
InitResize ==
  /\ \E g \in GraphsAfter(ResizeAdds) :
       /\ nodes = g.nodes
       /\ edges = g.edges
       /\ nodeCounter = g.nodeCounter
  /\ pristine = (nodeCounter = 1)
  /\ inflight = LayoutEffect(nodes, edges, pristine, <<>>)
  /\ call = Idle

NextResize ==
  \/ \E i \in DOMAIN nodes : Collapse(i)
  \/ \E i \in DOMAIN nodes : Expand(i)
  \/ \E i \in DOMAIN inflight : Resolves(i)
  \/ \E i \in DOMAIN inflight : ElkReject(i)

SpecResize == InitResize /\ [][NextResize]_vars

\* ---------------------------------------------------------------------------
\* Every kind of mutation, each followed by its layouts, from the initial
\* graph: clicks on the first rendered node of the graph as constructed or
\* reset, collapse and expand of that node, and resets.
\* ---------------------------------------------------------------------------
NextMutate ==
  \/ \E h \in RandomHeights : nodeCounter <= MutateAdds /\ AddChild(1, h)
  \/ Collapse(1)
  \/ Expand(1)
  \/ resetGraph
  \/ \E i \in DOMAIN inflight : Resolves(i)
  \/ \E i \in DOMAIN inflight : ElkReject(i)

\* the promise of the oldest pending layout settles
SettleOldest == inflight # <<>> /\ (Resolves(1) \/ ElkReject(1))

\* the delegate answers every call, so no promise stays pending for ever:
\* the oldest pending one settles again and again, or again and again none is
\* pending
DelegateAnswers == []<><<SettleOldest>>_vars \/ []<>(inflight = <<>>)

SpecMutate == Init /\ [][NextMutate]_vars /\ DelegateAnswers

(***************************************************************************)
(* Properties                                                              *)
(***************************************************************************)
NodeOf(ns, id) == ns[FindIndex(ns, id)]

Children(es, p) == {e.target : e \in {f \in Range(es) : f.source = p}}

Acyclic(es) == \A e \in Range(es) : e.source \notin Descendants(e.source, es)

\* the vertical gap of edge e in node list ns
Gap(ns, e) ==
  NodeOf(ns, e.target).y - (NodeOf(ns, e.source).y + HeightOf(NodeOf(ns, e.source)))

\* p's centre is the midpoint of the bounding box of the nodes with ids in S
CenteredOver(ns, p, S) ==
  NodeOf(ns, p).x + Half(DEFAULT_NODE_WIDTH)
    = Half(SetMin({NodeOf(ns, c).x : c \in S})
           + SetMax({NodeOf(ns, c).x + DEFAULT_NODE_WIDTH : c \in S}))

\* C2: after constrainChildrenToParent on a forest, whatever the order of its
\* edge list, every edge's gap child.y - (parent.y + parent.height) is at most 50
C2_DistanceBoundAnyOrder ==
  (call.stage = "constrainChildrenToParent" /\ Acyclic(edges))
    => \A e \in Range(edges) : Gap(call.result, e) <= 50

\* C3: after centerParentsOverChildren on a forest, every node with children has
\* its centre at the midpoint of its children's bounding box, in the output
C3_ParentsCentered ==
  (call.stage = "centerParentsOverChildren" /\ ~call.threw)
    => \A p \in Ids(nodes) :
         Children(edges, p) # {} => CenteredOver(call.result, p, Children(edges, p))

\* C3's case: a child that is itself a parent was moved by the pass, and its own
\* parent was centered over it
C3_Witness ==
  /\ call.stage = "centerParentsOverChildren"
  /\ ~call.threw
  /\ \E e \in Range(edges) :
       /\ Children(edges, e.target) # {}
       /\ NodeOf(call.result, e.target).x # NodeOf(nodes, e.target).x
       /\ NodeOf(call.result, e.source).x # NodeOf(nodes, e.source).x

\* C4: after alignSiblingsAtTop, the children of a parent with at least two
\* children all have the minimum of those children's input y
C4_SiblingsAligned ==
  call.stage = "alignSiblingsAtTop"
    => \A p \in Ids(nodes) :
         Cardinality(Children(edges, p)) >= 2
           => \A c \in Children(edges, p) :
                NodeOf(call.result, c).y
                  = SetMin({NodeOf(nodes, d).y : d \in Children(edges, p)})

\* C4's case: two siblings with different input y were aligned
C4_Witness ==
  /\ call.stage = "alignSiblingsAtTop"
  /\ \E e, f \in Range(edges) :
       /\ e.source = f.source
       /\ NodeOf(nodes, e.target).y < NodeOf(nodes, f.target).y
       /\ NodeOf(call.result, f.target).y = NodeOf(nodes, e.target).y

\* C5: after centerInputNodeForSkewedGraph, every root (no incoming edge, not
\* the sink) with descendants has its centre at the midpoint of the bounding
\* box of all its descendants, at any depth
C5_RootCenteredOverDescendants ==
  call.stage = "centerInputNodeForSkewedGraph"
    => \A r \in Ids(nodes) :
         (r \notin hasIncomingEdge(edges) /\ r # END_NODE_ID /\ Descendants(r, edges) # {})
           => CenteredOver(call.result, r, Descendants(r, edges))

\* C5's case: a root whose descendants' box differs from its children's box
C5_Witness ==
  /\ call.stage = "centerInputNodeForSkewedGraph"
  /\ \E r \in Ids(nodes) :
       /\ r \notin hasIncomingEdge(edges)
       /\ Children(edges, r) # {}
       /\ Descendants(r, edges) # Children(edges, r)
       /\ ~CenteredOver(call.result, r, Children(edges, r))
       /\ NodeOf(call.result, r).x # NodeOf(nodes, r).x

\* the nodes of a returned list that are not the sink
NonSink(ns) == SelectSeq(ns, LAMBDA n : n.id # END_NODE_ID)

\* the sink of list ns sits centered under, and VERTICAL_SPACING below, the
\* bounding box of the nodes of list box
SinkUnder(ns, box) ==
  LET sink == NodeOf(ns, END_NODE_ID)
      minX == SetMin({box[i].x : i \in DOMAIN box})
      maxX == SetMax({box[i].x + DEFAULT_NODE_WIDTH : i \in DOMAIN box})
      maxY == SetMax({box[i].y + box[i].height : i \in DOMAIN box})
  IN /\ sink.x = Half(minX + maxX) - Half(DEFAULT_NODE_WIDTH)
     /\ sink.y = maxY + 100

\* C6: with an empty sink subtree the returned sink is centered under the main
\* tree's bounding box and 100 below it; so it is at least 100 below every
\* main-tree node, and for root -> sink alone it is 100 below the root, at its x
C6_SinkBelowMainTree ==
  (call.stage = "done" /\ ~call.threw /\ getOutputTreeDescendants(edges) = {})
    => LET sink == NodeOf(call.result, END_NODE_ID)
           main == NonSink(call.result)
       IN /\ SinkUnder(call.result, main)
          /\ \A i \in DOMAIN main : sink.y >= main[i].y + main[i].height + 100
          /\ Len(nodes) = 2
               => /\ sink.y = NodeOf(call.result, ROOT_ID).y
                                + NodeOf(call.result, ROOT_ID).height + 100
                  /\ sink.x = NodeOf(call.result, ROOT_ID).x

\* C6's case: a main tree of several nodes at different places, sink subtree empty
C6_Witness ==
  /\ call.stage = "done"
  /\ ~call.threw
  /\ getOutputTreeDescendants(edges) = {}
  /\ \E i, j \in DOMAIN call.result :
       /\ call.result[i].id # END_NODE_ID
       /\ call.result[j].id # END_NODE_ID
       /\ call.result[i].x # call.result[j].x
       /\ call.result[i].y + call.result[i].height < call.result[j].y + call.result[j].height

\* C7: with a non-empty sink subtree the sink is returned once, at the position
\* fixed from the main tree (centered under its bounding box, 100 below it)
C7_SinkKeepsFixedPosition ==
  (call.stage = "done" /\ ~call.threw /\ getOutputTreeDescendants(edges) # {})
    => /\ Cardinality({i \in DOMAIN call.result : call.result[i].id = END_NODE_ID}) = 1
       /\ SinkUnder(call.result,
                    SelectSeq(call.result, LAMBDA n : n.id \in mainRequestIds(call)))

\* C1: a layout result that resolves after a newer layout was requested is not
\* applied: it leaves the node state as it is
C1_StaleResultNotApplied ==
  [][\A i \in DOMAIN inflight :
       (~inflight[i].latest /\ Resolves(i)) => nodes' = nodes]_vars

\* ids that occur in the node list or at an end of an edge
GraphIds(ns, es) ==
  Ids(ns) \cup {e.source : e \in Range(es)} \cup {e.target : e \in Range(es)}

\* the nodes outside the sink and its subtree
MainTreeIds(ns, es) ==
  GraphIds(ns, es) \ ({END_NODE_ID} \cup Descendants(END_NODE_ID, es))

SinkEdgeIffLeaf ==
  \A n \in MainTreeIds(nodes, edges) :
    Edge(n, END_NODE_ID) \in Range(edges) <=> Children(edges, n) \ {END_NODE_ID} = {}

\* a click on a main-tree node removes its edge to the sink and adds the two
\* edges parent -> new and new -> sink, and nothing else
MainTreeClickRewires ==
  nodeCounter' # nodeCounter
    => \E p \in Ids(nodes) :
         /\ Edge(p, NodeId(nodeCounter)) \in Range(edges')
         /\ p \in MainTreeIds(nodes, edges)
              => /\ Range(edges') \ Range(edges)
                      = {Edge(p, NodeId(nodeCounter)), Edge(NodeId(nodeCounter), END_NODE_ID)}
                 /\ Range(edges) \ Range(edges') = {Edge(p, END_NODE_ID)} \cap Range(edges)
                 /\ Len(edges') = Len(edges) + 2 - Cardinality({Edge(p, END_NODE_ID)} \cap Range(edges))

\* C8: in every state reached by clicks alone, a main-tree node has an edge
\* into the sink exactly if it has no structural child; a click on a main-tree
\* node removes its edge to the sink and adds exactly parent -> new, new -> sink
C8_MainTreeLeavesEndAtSink == [](SinkEdgeIffLeaf) /\ [][MainTreeClickRewires]_vars

\* C8's case: a main-tree node that was a leaf has been extended twice down a branch
C8_Witness ==
  /\ Range(edges) = {Edge(ROOT_ID, NodeId(1)), Edge(NodeId(1), NodeId(2)),
                     Edge(NodeId(2), END_NODE_ID)}
  /\ Len(nodes) = 4

\* C9: in every reachable state no node of the sink subtree has an edge to the
\* sink (clicks in the sink subtree add parent -> new only)
C9_NoSinkSubtreeEdgeToSink ==
  \A e \in Range(edges) :
    e.target = END_NODE_ID => e.source \notin Descendants(END_NODE_ID, edges)

InDegree(es, n) == Cardinality({i \in DOMAIN es : es[i].target = n})

\* C10: each non-sink node has at most one incoming edge, each non-sink node
\* other than the root exactly one, and the edges not into the sink are acyclic
C10_StructuralForest ==
  /\ \A n \in Ids(nodes) \ {END_NODE_ID} : InDegree(edges, n) <= 1
  /\ \A n \in Ids(nodes) \ {END_NODE_ID, ROOT_ID} : InDegree(edges, n) = 1
  /\ Acyclic(SelectSeq(edges, LAMBDA e : e.target # END_NODE_ID))

\* C11: when a delegate call rejects, the main tree's or the output tree's after
\* the main tree's resolved, layoutWithElk returns its nodes argument unchanged
C11_FailureReturnsInput ==
  [][(LayoutMainReject \/ LayoutOutputReject)
       => /\ call'.stage = "done"
          /\ call'.result = nodes]_vars

\* C11's case: the output tree's call rejected after the main tree was positioned
\* away from the input positions
C11_Witness ==
  /\ call.stage = "done"
  /\ call.threw
  /\ call.positionedEndNode # <<>>
  /\ \E i \in DOMAIN call.finalMainNodes : call.finalMainNodes[i].x # 0
  /\ call.result = nodes

\* an edge names a node that is not in the list, or a non-sink node has two parents
InvalidGraph(ns, es) ==
  \/ \E e \in Range(es) : e.source \notin Ids(ns) \/ e.target \notin Ids(ns)
  \/ \E n \in Ids(ns) \ {END_NODE_ID} : InDegree(es, n) > 1

\* C12: a recompute on a graph with an edge to an unknown node id, or with a
\* non-sink node of two parents, fails whatever the delegate answers (and so
\* leaves the positions as they were)
C12_InvalidGraphFails ==
  \A i \in DOMAIN inflight :
    InvalidGraph(inflight[i].call.nodes, inflight[i].call.edges)
      => \A mainPos \in FlowResponses(mainRequestIds(inflight[i].call)) :
           \A outPos \in FlowResponses(outputRequestIds(inflight[i].call)) :
             Returned(inflight[i].call, mainPos, outPos).threw

\* C13: on a graph with a cycle in its structural edges the reserved-width
\* computation does not recurse without bound
C13_WidthsRecursionBounded ==
  call.stage = "calculateSubtreeWidths" => ~call.threw

RECURSIVE WidthSum(_, _)
WidthSum(ws, S) ==
  IF S = {} THEN 0
  ELSE LET c == CHOOSE d \in S : TRUE
       IN NodeOf(ws, c).elkWidth + WidthSum(ws, S \ {c})

\* C14: on an acyclic edge set the reserved width is 500 for a node without
\* children and max(500, sum of the children's reserved widths + 100 *
\* (childCount - 1)) for a node with children; so it is at least 500, and at
\* least the children's sum plus spacing
C14_ReservedWidths ==
  (call.stage = "calculateSubtreeWidths" /\ ~call.threw)
    => \A i \in DOMAIN call.result :
         LET w == call.result[i].elkWidth
             ch == Children(edges, call.result[i].id)
             need == WidthSum(call.result, ch) + 100 * (Cardinality(ch) - 1)
         IN /\ w >= 500
            /\ ch = {} => w = 500
            /\ ch # {} => /\ w >= need
                          /\ w = IF need > 500 THEN need ELSE 500

\* C14's case: a parent whose two children need more than its own width
C14_Witness ==
  /\ call.stage = "calculateSubtreeWidths"
  /\ ~call.threw
  /\ \E i \in DOMAIN call.result :
       /\ Cardinality(Children(edges, call.result[i].id)) = 2
       /\ call.result[i].elkWidth = 500 + 500 + 100

\* the node list with its i-th node moved to grid point g[i]
Repositioned(ns, g) ==
  [i \in DOMAIN ns |-> [ns[i] EXCEPT !.x = g[i] * XStep, !.y = g[i] * YStep]]

\* C15: with a delegate that answers equal requests equally, layoutWithElk on
\* its own output hands the delegate the same requests and returns the same
\* list; and what it returns does not depend on the positions of its input
C15_LayoutIdempotent ==
  (call.stage = "done" /\ ~call.threw)
    => /\ mainElkGraph(call.result, edges) = mainElkGraph(nodes, edges)
       /\ outputElkGraph(call.result, edges) = outputElkGraph(nodes, edges)
       /\ \A mainPos \in ElkResponses(mainRequestIds(call)) :
            \A outPos \in ElkResponses(outputRequestIds(call)) :
              Returned(LayoutStart(nodes, edges), mainPos, outPos).result = call.result
                => /\ Returned(LayoutStart(call.result, edges), mainPos, outPos).result
                        = call.result
                   /\ \A g \in [DOMAIN nodes -> 0..ElkGrid] :
                        Returned(LayoutStart(Repositioned(nodes, g), edges),
                                 mainPos, outPos).result = call.result

\* C15's case: a successful layout of a main tree and a sink subtree that moved
\* nodes away from their input positions
C15_Witness ==
  /\ call.stage = "done"
  /\ ~call.threw
  /\ getOutputTreeDescendants(edges) # {}
  /\ Len(mainTreeNodes(nodes, edges)) >= 2
  /\ \E i \in DOMAIN call.result :
       call.result[i].id # END_NODE_ID /\ call.result[i].x # 0 /\ call.result[i].y # 0

\* the two-node graph: node set {root, sink}, edge set {root -> sink}
IsResetGraph(ns, es) ==
  /\ Len(ns) = 2
  /\ Ids(ns) = {ROOT_ID, END_NODE_ID}
  /\ es = <<Edge(ROOT_ID, END_NODE_ID)>>

\* C16: Reset leaves the two-node graph, and the graph stays the two-node
\* graph through every step that is not a click, layout completions included
C16_ResetGraphStays ==
  [][/\ resetGraph => IsResetGraph(nodes', edges')
     /\ (IsResetGraph(nodes, edges) /\ nodeCounter' = nodeCounter)
          => IsResetGraph(nodes', edges')]_vars

\* C17: without Reset, no step removes a node from the node set or an edge
\* whose target is not the sink from the edge set
C17_NothingRemoved ==
  [][/\ Ids(nodes) \subseteq Ids(nodes')
     /\ \A e \in Range(edges) : e.target # END_NODE_ID => e \in Range(edges')]_vars

\* the height a node was created with: initialNodes, or onNodeClick's randomHeight
CreatedWithHeight(n) ==
  IF n.id \in {ROOT_ID, END_NODE_ID} THEN n.originalHeight = DEFAULT_NODE_HEIGHT
  ELSE n.originalHeight \in RandomHeights

\* the step changed no edge, no node's created height, and no height of a node
\* with another id than the i-th node's
ResizesOnly(i) ==
  /\ edges' = edges
  /\ Len(nodes') = Len(nodes)
  /\ \A j \in DOMAIN nodes :
       /\ nodes'[j].id = nodes[j].id
       /\ nodes'[j].originalHeight = nodes[j].originalHeight
       /\ nodes[j].id # nodes[i].id => nodes'[j].height = nodes[j].height

HeightsKept ==
  \A i \in DOMAIN nodes :
    /\ Collapse(i) => nodes'[i].height = 100 /\ ResizesOnly(i)
    /\ Expand(i) => nodes'[i].height = nodes[i].originalHeight /\ ResizesOnly(i)

\* C18: every node remembers the height h it was created with; Collapse sets
\* its height to 100 and Expand to h, whatever came before; neither changes an
\* edge or another node's height
C18_CollapseExpandHeights ==
  [](\A i \in DOMAIN nodes : CreatedWithHeight(nodes[i])) /\ [][HeightsKept]_vars

\* C18's case: a clicked node of created height 200 is collapsed while the
\* layout of the expanded graph is in flight
C18_Witness ==
  \E i \in DOMAIN nodes :
    /\ nodes[i].id = NodeId(1)
    /\ nodes[i].height = COLLAPSED_HEIGHT
    /\ nodes[i].originalHeight = MIN_RANDOM_HEIGHT
    /\ \E k \in DOMAIN inflight :
         \E j \in DOMAIN inflight[k].call.nodes :
           /\ inflight[k].call.nodes[j].id = NodeId(1)
           /\ inflight[k].call.nodes[j].height = MIN_RANDOM_HEIGHT

\* both ends of every edge of an elk graph are children of that graph
EdgesWithinChildren(g) ==
  \A e \in Range(g.edges) :
    /\ \E i \in DOMAIN g.children : g.children[i].id = e.source
    /\ \E i \in DOMAIN g.children : g.children[i].id = e.target

\* ids that a path of one or more edges leads to from the sink
ForwardFromSink(es) ==
  {v \in {e.target : e \in Range(es)} :
     \E path \in UNION {[1..k -> Range(es)] : k \in 1..Len(es)} :
       /\ path[1].source = END_NODE_ID
       /\ path[Len(path)].target = v
       /\ \A j \in 1..(Len(path) - 1) : path[j].target = path[j + 1].source}

\* C19: for a graph built by clicks, main-tree nodes, sink and sink-subtree
\* nodes partition the nodes, the sink subtree being what is reachable forward
\* from the sink; mainTreeEdges are the edges with both ends in the main tree;
\* every edge handed to the delegate has both ends among that call's nodes
C19_ForestDecomposition ==
  call.stage # "idle"
    => LET mainIds == Ids(mainTreeNodes(nodes, edges))
           outIds == Ids(outputTreeNodes(nodes, edges))
       IN /\ mainIds \cap outIds = {}
          /\ END_NODE_ID \notin mainIds \cup outIds
          /\ mainIds \cup outIds \cup {END_NODE_ID} = Ids(nodes)
          /\ Len(mainTreeNodes(nodes, edges)) + Len(outputTreeNodes(nodes, edges)) + 1
               = Len(nodes)
          /\ outIds = ForwardFromSink(edges)
          /\ Range(mainTreeEdges(edges))
               = {e \in Range(edges) : e.source \in mainIds /\ e.target \in mainIds}
          /\ EdgesWithinChildren(mainElkGraph(nodes, edges))
          /\ outIds # {} => EdgesWithinChildren(outputElkGraph(nodes, edges))

\* C19's case: a call that has made both delegate calls, for a main tree and a
\* sink subtree of two nodes each
C19_Witness ==
  /\ call.stage = "output"
  /\ Len(mainTreeNodes(nodes, edges)) = 2
  /\ Len(outputTreeNodes(nodes, edges)) = 2
  /\ Len(mainElkGraph(nodes, edges).edges) = 1
  /\ Len(outputElkGraph(nodes, edges).edges) = 2

\* ---------------------------------------------------------------------------
\* C20
\* ---------------------------------------------------------------------------
\* the step is one of the mutations the claim names
AddsChild == \E i \in DOMAIN nodes, h \in RandomHeights :
               AddChild(i, h) /\ nodeCounter' = nodeCounter + 1

Resizes == /\ \E i \in DOMAIN nodes : Collapse(i) \/ Expand(i)
           /\ \E j \in DOMAIN nodes : nodes'[j].height # nodes[j].height

Resets == resetGraph /\ (nodes # initialNodes \/ edges # initialEdges)

Mutates == AddsChild \/ Resizes \/ Resets

\* a layout of the graph as it is after the step is pending, or has already
\* returned its input, the stored nodes
Recomputing ==
  LET c == LayoutStart(nodes', edges')
  IN \/ c.stage = "done" /\ c.result = nodes'
     \/ /\ inflight' # <<>>
        /\ inflight'[Len(inflight')].call = c
        /\ inflight'[Len(inflight')].latest

\* the pending layouts other than the i-th stay pending, in their order
OthersPending(i) ==
  /\ Len(inflight') >= Len(inflight) - 1
  /\ \A k \in DOMAIN inflight :
       /\ k < i => inflight'[k].call = inflight[k].call
       /\ k > i => inflight'[k - 1].call = inflight[k].call

\* the outcome of the i-th pending layout becomes the stored nodes
Applied(i) ==
  /\ ElkReject(i) => nodes' = inflight[i].call.nodes
  /\ Resolves(i) =>
       \E mainPos \in FlowResponses(mainRequestIds(inflight[i].call)) :
         \E outPos \in FlowResponses(outputRequestIds(inflight[i].call)) :
           nodes' = Returned(inflight[i].call, mainPos, outPos).result

Settles(i) == Resolves(i) \/ ElkReject(i)

RecomputeStep ==
  /\ Mutates => Recomputing
  /\ \A i \in DOMAIN inflight : Settles(i) => Applied(i) /\ OthersPending(i)
  /\ (\A i \in DOMAIN inflight : ~Settles(i)) => OthersPending(Len(inflight) + 1)

C22_ParentsStillCentered ==
  (call.stage = "done" /\ ~call.threw)
    => LET es == mainTreeEdges(edges)
       IN \A p \in mainRequestIds(call) :
            Children(es, p) # {}
              => IF p \in hasIncomingEdge(es)
                 THEN CenteredOver(call.result, p, Children(es, p))
                 ELSE CenteredOver(call.result, p, Descendants(p, es))

\* C22's case: the root is centered over descendants whose box is not its
\* children's box, above a centered parent of two children at different x
C22_Witness ==
  /\ call.stage = "done"
  /\ ~call.threw
  /\ LET es == mainTreeEdges(edges)
     IN /\ Children(es, ROOT_ID) # {}
        /\ ~CenteredOver(call.result, ROOT_ID, Children(es, ROOT_ID))
        /\ \E e, f \in Range(es) :
             /\ e.source = f.source
             /\ e.source # ROOT_ID
             /\ NodeOf(call.result, e.target).x # NodeOf(call.result, f.target).x

\* the pass returned the nodes in their order, each with its id and heights
SameNodes(out, in) ==
  /\ Len(out) = Len(in)
  /\ \A i \in DOMAIN in :
       /\ out[i].id = in[i].id
       /\ out[i].height = in[i].height
       /\ out[i].originalHeight = in[i].originalHeight

\* C23: centerParentsOverChildren changes no y and no node without children;
\* a node whose x it changes has children and ends centered over them, so no
\* node is moved on account of its parent
C23_CenterMovesParentsOnly ==
  (call.stage = "centerParentsOverChildren" /\ ~call.threw)
    => /\ SameNodes(call.result, nodes)
       /\ \A i \in DOMAIN nodes :
            /\ call.result[i].y = nodes[i].y
            /\ Children(edges, nodes[i].id) = {} => call.result[i] = nodes[i]
            /\ call.result[i].x # nodes[i].x
                 => CenteredOver(call.result, nodes[i].id, Children(edges, nodes[i].id))

\* C23's case: a parent was moved over a child that stayed where it was
C23_Witness ==
  /\ call.stage = "centerParentsOverChildren"
  /\ ~call.threw
  /\ \E e \in Range(edges) :
       /\ NodeOf(call.result, e.source).x # NodeOf(nodes, e.source).x
       /\ NodeOf(nodes, e.target).x # NodeOf(nodes, e.source).x
       /\ NodeOf(call.result, e.target) = NodeOf(nodes, e.target)

\* C24: centerInputNodeForSkewedGraph changes no y, and no x but that of nodes
\* without incoming edge other than the sink; with the sink as the only node
\* without incoming edge it returns its input
C24_SkewMovesRootsOnly ==
  call.stage = "centerInputNodeForSkewedGraph"
    => /\ SameNodes(call.result, nodes)
       /\ \A i \in DOMAIN nodes :
            /\ call.result[i].y = nodes[i].y
            /\ (nodes[i].id \in hasIncomingEdge(edges) \/ nodes[i].id = END_NODE_ID)
                 => call.result[i] = nodes[i]
       /\ Ids(nodes) \ hasIncomingEdge(edges) = {END_NODE_ID} => call.result = nodes

\* C24's case: the sink is the only node without incoming edge, is not centered
\* over its descendants, and is returned where it was
C24_Witness ==
  /\ call.stage = "centerInputNodeForSkewedGraph"
  /\ Ids(nodes) \ hasIncomingEdge(edges) = {END_NODE_ID}
  /\ Descendants(END_NODE_ID, edges) = Ids(nodes) \ {END_NODE_ID}
  /\ ~CenteredOver(nodes, END_NODE_ID, Descendants(END_NODE_ID, edges))
  /\ call.result = nodes

\* C25: alignSiblingsAtTop changes no x and raises no y, and returns a node
\* without parent, or whose parent has no other child, as it was
C25_AlignFrame ==
  call.stage = "alignSiblingsAtTop"
    => /\ SameNodes(call.result, nodes)
       /\ \A i \in DOMAIN nodes :
            /\ call.result[i].x = nodes[i].x
            /\ call.result[i].y <= nodes[i].y
            /\ (\A e \in Range(edges) :
                  e.target = nodes[i].id => Children(edges, e.source) = {nodes[i].id})
                 => call.result[i] = nodes[i]

\* C25's case: a sibling was moved up to the other's y, their parent stayed
C25_Witness ==
  /\ call.stage = "alignSiblingsAtTop"
  /\ \E e, f \in Range(edges) :
       /\ e.source = f.source
       /\ NodeOf(call.result, f.target).y < NodeOf(nodes, f.target).y
       /\ NodeOf(call.result, f.target).x = NodeOf(nodes, f.target).x
       /\ NodeOf(call.result, e.target).x # NodeOf(nodes, f.target).x
       /\ NodeOf(call.result, e.source) = NodeOf(nodes, e.source)

\* the node list when constrainChildrenToParent has processed its first k edges
ConstrainedUpTo(k) == ConstrainFold(nodes, SubSeq(edges, 1, k))

C27_TranslationKeepsOffsets ==
  call.stage = "output"
    => \A pos \in ElkPartialResponses(outputRequestIds(call)) :
         LET laid == outputLaidOutNodes(call, pos)
             sink == NodeOf(laid, END_NODE_ID)
             elkX(id) == IF id \in DOMAIN pos THEN pos[id].x ELSE 0
             elkY(id) == IF id \in DOMAIN pos THEN pos[id].y ELSE 0
         IN /\ Ids(laid) = outputRequestIds(call)
            /\ Len(laid) = Cardinality(outputRequestIds(call))
            /\ SinkUnder(laid, call.finalMainNodes)
            /\ \A i \in DOMAIN laid :
                 /\ laid[i].x - sink.x = elkX(laid[i].id) - elkX(END_NODE_ID)
                 /\ laid[i].y - sink.y = elkY(laid[i].id) - elkY(END_NODE_ID)

\* C27's case: a sink subtree of two nodes is about to be translated to a sink
\* position that the main tree's layout moved away from the origin's column
C27_Witness ==
  /\ call.stage = "output"
  /\ Len(outputTreeNodes(nodes, edges)) = 2
  /\ call.positionedEndNode[1].x # 0
  /\ call.positionedEndNode[1].y > DEFAULT_NODE_HEIGHT + VERTICAL_SPACING

\* C28: for a graph built by clicks, the list layoutWithElk returns, from
\* either return or from the catch block, has each node id of its input exactly
\* once and nothing else, and each node with its input height
C28_ReturnsEveryNodeOnce ==
  call.stage = "done"
    => /\ Len(call.result) = Len(nodes)
       /\ \A i \in DOMAIN nodes :
            /\ Cardinality({j \in DOMAIN call.result : call.result[j].id = nodes[i].id}) = 1
            /\ NodeOf(call.result, nodes[i].id).height = nodes[i].height

\* C28's case: a successful layout with a sink subtree returned the nodes in
\* another order than it was given them
C28_Witness ==
  /\ call.stage = "done"
  /\ ~call.threw
  /\ Len(outputTreeNodes(nodes, edges)) >= 1
  /\ Len(mainTreeNodes(nodes, edges)) >= 2
  /\ \E i \in DOMAIN nodes : call.result[i].id # nodes[i].id

\* C29: in every reachable state the node ids are pairwise distinct, the
\* sink's id among them at most once, and both ends of every edge are ids of
\* nodes of the node list
C29_IdsDistinctEdgesClosed ==
  /\ \A i, j \in DOMAIN nodes : nodes[i].id = nodes[j].id => i = j
  /\ Cardinality({i \in DOMAIN nodes : nodes[i].id = END_NODE_ID}) <= 1
  /\ \A e \in Range(edges) : e.source \in Ids(nodes) /\ e.target \in Ids(nodes)

\* the step changed neither the node count, nor the edge count, nor a height
SameCountsAndHeights ==
  /\ Len(nodes') = Len(nodes)
  /\ Len(edges') = Len(edges)
  /\ Ids(nodes') = Ids(nodes)
  /\ \A id \in Ids(nodes) : NodeOf(nodes', id).height = NodeOf(nodes, id).height

\* applying a layout result that changes no count and no height issues no
\* layout: the settled request leaves the pending ones and none is added
AppliesQuietly ==
  \A i \in DOMAIN inflight :
    (Settles(i) /\ SameCountsAndHeights) => Len(inflight') = Len(inflight) - 1

\* C30: applying a layout result does not by itself issue another recompute,
\* and after the last mutation only finitely many recomputes are issued: unless
\* mutations keep coming, from some point on no layout is pending
C30_Quiesces ==
  /\ [][AppliesQuietly]_vars
  /\ \/ []<><<Mutates>>_vars
     \/ <>[](inflight = <<>>)

====
